---- MODULE Spec2Model ----
(***************************************************************************)
(* State-machine model of psd-server.py: the Flask handler                 *)
(* update_psd_text and the function process_psd_updates it calls, together *)
(* with the parts of their environment they act on (the Photoshop          *)
(* document, the local disk, the OSS bucket).                              *)
(***************************************************************************)
EXTENDS Integers, Sequences, FiniteSets, TLC

\* ------------------------------------------------------------------ bounds
\* Longest updates list a request of Spec carries.
MaxUpdates == 3
\* Longest updates list a request of SpecConc carries.
MaxConcUpdates == 1

\* ------------------------------------------------------------ the universe
\* The handler threads the server may run side by side.
Reqs == {1, 2}

None == "None"

PSD_DIRECTORY == "C:\\Users\\Administrator\\photoshop-python-api"

\* psd_id values a request may carry; only 1.psd is on disk.
PsdIds == {"1", "does-not-exist"}

\* os.path.join(PSD_DIRECTORY, f"{psd_id}.psd")
PsdPath(id) == <<PSD_DIRECTORY, id, ".psd">>
\* os.path.join(PSD_DIRECTORY, f"{psd_id}_output.jpg")
JpgPath(id) == <<PSD_DIRECTORY, id, "_output.jpg">>
\* f'psd-outputs/{psd_id}_output.jpg'
OssPath(id) == <<"psd-outputs/", id, "_output.jpg">>

JpgPaths == {JpgPath(id) : id \in PsdIds}
OssPaths == {OssPath(id) : id \in PsdIds}

\* The .psd files of PSD_DIRECTORY (the document test_psd_processing expects).
PsdFiles == {PsdPath("1")}

\* The art layers of 1.psd and their kinds.
LayerNames == {"title", "test_layer_2", "background"}
LayerKind(name) == IF name \in {"title", "test_layer_2"} THEN "TextLayer" ELSE "NormalLayer"
TextLayers == {n \in LayerNames : LayerKind(n) = "TextLayer"}

\* textItem.contents of the text layers as stored in the .psd file.
OrigText == "orig"
NewTexts == {"Test text 1"}

\* ------------------------------------------------------------ JSON values
\* A JSON value is a record [type, val]; an object's val is a function from
\* its keys, an array's val is here the set of its string items (enough for
\* Python's `in`), a list of updates is a sequence.
JObject(f) == [type |-> "object", val |-> f]
JString(s) == [type |-> "string", val |-> s]
JNumber(n) == [type |-> "number", val |-> n]
JArray(s) == [type |-> "array", val |-> s]
JList(s) == [type |-> "list", val |-> s]

\* The entries a list of updates is drawn from: well-formed updates of the
\* three layers and of a name the document lacks, entries missing a key, and
\* an entry that is no mapping.
UpdateEntries ==
    {JObject([layer_id |-> n, text |-> t]) :
        n \in LayerNames \cup {"nonexistent_layer"}, t \in NewTexts}
    \cup {JObject([layer_id |-> "title"]), JObject([text |-> "Test text 1"])}
    \cup {JString("title")}

SeqsUpTo(S, n) == UNION {[1..k -> S] : k \in 0..n}

UpdateLists == SeqsUpTo(UpdateEntries, MaxUpdates)

ConcUpdateEntries ==
    {JObject([layer_id |-> n, text |-> "Test text 1"]) : n \in {"title", "nonexistent_layer"}}

\* The request bodies of Spec: unparsable, null, scalars, arrays, objects
\* lacking a key, objects whose updates is no list, and well-shaped objects.
Bodies ==
    {[type |-> "unparsable", val |-> None], [type |-> "null", val |-> None],
     JNumber(0), JNumber(5),
     JArray({}), JArray({"psd_id"}), JArray({"psd_id", "updates"}),
     JObject(<<>>), JObject([psd_id |-> "1"]), JObject([updates |-> JList(<<>>)])}
    \cup {JObject([psd_id |-> p, updates |-> JString("title")]) : p \in PsdIds}
    \cup {JObject([psd_id |-> "does-not-exist", updates |-> JList(<<>>)])}
    \cup {JObject([psd_id |-> "1", updates |-> JList(u)]) : u \in UpdateLists}

\* The request bodies of SpecConc: well-shaped requests for the same psd_id.
ConcBodies ==
    {JObject([psd_id |-> "1", updates |-> JList(u)]) :
        u \in SeqsUpTo(ConcUpdateEntries, MaxConcUpdates)}

\* ------------------------------------------------------ exception messages
ErrBadRequest == "400 Bad Request: Failed to decode JSON object"
ErrTypeError == "TypeError"
ErrSession == "Session: Photoshop unavailable"
ErrOpen == "open: COMError"
ErrNotFound == "getByName: no such element"
ErrLookup == "getByName: COMError"
ErrSetText == "textItem.contents: COMError"
ErrSaveAs == "saveAs: COMError"
ErrClose == "close: COMError"
ErrAuth == "oss2.Auth failed"
ErrBucket == "oss2.Bucket failed"
ErrNoFile == "FileNotFoundError"
ErrPut == "put_object failed"
ErrRemove == "PermissionError"

VARIABLES
    pc,              \* where each handler thread stands
    body,            \* the request body it received
    psd_id,          \* data['psd_id'] once validation passed
    i,               \* index of the next update the loop visits
    updated_layers,  \* process_psd_updates' updated_layers
    failed_layers,   \* process_psd_updates' failed_layers
    outcomes,        \* which branch of the loop body each visited update took
    success,         \* the third component process_psd_updates returned
    doc,             \* the thread's document handle: none, open, closed
    responses,       \* the responses the handler returned
    exc,             \* the exception the handler's except clause caught
    ossCalls,        \* the object-store calls each thread made
    docOpen,         \* 1.psd is open in the Photoshop application
    contents,        \* textItem.contents of the text layers of the open document
    jpgFiles,        \* the disk: which request's export each jpg path holds (0: no file)
    bucket           \* the OSS bucket: which export each key holds (0: no object)

vars == <<pc, body, psd_id, i, updated_layers, failed_layers, outcomes, success, doc,
          responses, exc, ossCalls, docOpen, contents, jpgFiles, bucket>>

Init ==
    /\ pc = [r \in Reqs |-> "idle"]
    /\ body = [r \in Reqs |-> [type |-> "null", val |-> None]]
    /\ psd_id = [r \in Reqs |-> None]
    /\ i = [r \in Reqs |-> 1]
    /\ updated_layers = [r \in Reqs |-> <<>>]
    /\ failed_layers = [r \in Reqs |-> <<>>]
    /\ outcomes = [r \in Reqs |-> <<>>]
    /\ success = [r \in Reqs |-> FALSE]
    /\ doc = [r \in Reqs |-> "none"]
    /\ responses = [r \in Reqs |-> <<>>]
    /\ exc = [r \in Reqs |-> None]
    /\ ossCalls = [r \in Reqs |-> <<>>]
    /\ docOpen = FALSE
    /\ contents = [n \in TextLayers |-> OrigText]
    /\ jpgFiles = [p \in JpgPaths |-> 0]
    /\ bucket = [k \in OssPaths |-> 0]

\* ---------------------------------------------------------------- helpers
\* return jsonify(json), status
Respond(r, status, json) ==
    /\ responses' = [responses EXCEPT ![r] = Append(@, [status |-> status, json |-> json])]
    /\ pc' = [pc EXCEPT ![r] = "done"]

\* Raise with the except clause of line 134 missing: the exception leaves the
\* handler and no response is built.
Raise_Propagates(r, msg) ==
    /\ exc' = [exc EXCEPT ![r] = msg]
    /\ pc' = [pc EXCEPT ![r] = "done"]
    /\ UNCHANGED responses

\* An exception raised in the handler's try block: the except clause
\* returns jsonify({'error': str(e)}), 500.
Raise(r, msg) ==
    /\ exc' = [exc EXCEPT ![r] = msg]
    /\ Respond(r, 500, [error |-> msg])

\* Python truthiness of the value get_json returned.
Truthy(data) ==
    CASE data.type \in {"null", "unparsable"} -> FALSE
      [] data.type = "number" -> data.val # 0
      [] data.type = "array" -> data.val # {}
      [] data.type = "object" -> DOMAIN data.val # {}
      [] OTHER -> TRUE

\* `key in data` is defined for objects (keys) and arrays (items), and raises
\* TypeError for a number.
InRaises(data) == data.type = "number"
In(key, data) ==
    CASE data.type = "object" -> key \in DOMAIN data.val
      [] data.type = "array" -> key \in data.val
      [] OTHER -> FALSE

\* What request.get_json() may do with the body: return the parsed value,
\* and for a body that is no JSON either return None or raise BadRequest.
GetJsonOutcomes(b) == IF b.type = "unparsable" THEN {"None", "raise"} ELSE {"value"}

\* Lines 86-99 for the value `data`: the response, or "pass".
Validation(data) ==
    IF ~Truthy(data) THEN "400 missing"
    ELSE IF InRaises(data) THEN "raise TypeError"
    ELSE IF ~In("psd_id", data) \/ ~In("updates", data) THEN "400 missing"
    ELSE IF data.type # "object" THEN "raise TypeError"
    ELSE IF data.val.updates.type # "list" THEN "400 not a list"
    ELSE IF PsdPath(data.val.psd_id) \notin PsdFiles THEN "404"
    ELSE "pass"

\* ---------------------------------------------------------------- actions
\* A POST /update-psd-text arrives (Spec).
Receive(r) ==
    /\ pc[r] = "idle"
    /\ \E b \in Bodies : body' = [body EXCEPT ![r] = b]
    /\ pc' = [pc EXCEPT ![r] = "validate"]
    /\ UNCHANGED <<psd_id, i, updated_layers, failed_layers, outcomes, success, doc,
                   responses, exc, ossCalls, docOpen, contents, jpgFiles, bucket>>

\* update_psd_text, lines 86-99: parse and validate the request.
Validate(r) ==
    /\ pc[r] = "validate"
    /\ \E o \in GetJsonOutcomes(body[r]) :
        LET v == IF o = "raise" THEN "raise BadRequest" ELSE Validation(body[r]) IN
        CASE v = "raise BadRequest" -> Raise(r, ErrBadRequest) /\ UNCHANGED psd_id
          [] v = "raise TypeError" -> Raise(r, ErrTypeError) /\ UNCHANGED psd_id
          [] v = "400 missing" ->
                /\ Respond(r, 400, [error |-> "Missing psd_id or updates in request"])
                /\ UNCHANGED <<psd_id, exc>>
          [] v = "400 not a list" ->
                /\ Respond(r, 400, [error |-> "Updates must be a list of layer updates"])
                /\ UNCHANGED <<psd_id, exc>>
          [] v = "404" ->
                /\ Respond(r, 404, [error |-> "PSD file not found"])
                /\ UNCHANGED <<psd_id, exc>>
          [] v = "pass" ->
                /\ psd_id' = [psd_id EXCEPT ![r] = body[r].val.psd_id]
                /\ pc' = [pc EXCEPT ![r] = "session"]
                /\ UNCHANGED <<responses, exc>>
    /\ UNCHANGED <<body, i, updated_layers, failed_layers, outcomes, success, doc,
                   ossCalls, docOpen, contents, jpgFiles, bucket>>

\* A POST /update-psd-text arrives (SpecConc): both threads are handed
\* well-shaped requests for the same psd_id.
ReceiveConc(r) ==
    /\ pc[r] = "idle"
    /\ \E b \in ConcBodies : body' = [body EXCEPT ![r] = b]
    /\ pc' = [pc EXCEPT ![r] = "validate"]
    /\ UNCHANGED <<psd_id, i, updated_layers, failed_layers, outcomes, success, doc,
                   responses, exc, ossCalls, docOpen, contents, jpgFiles, bucket>>

\* ---------------------------------------------------- process_psd_updates
\* text_updates, as the handler passes it: data['updates'].
Updates(r) == body[r].val.updates.val

\* Session.__exit__ of `with Session() as ps`: the session is made with its
\* default arguments, so leaving the block closes no document.
auto_close == FALSE
SessionExit(d) == IF auto_close /\ d = "open" THEN "closed" ELSE d

\* What a call into the Photoshop bridge may do: succeed or raise; a call on
\* the document raises once the document is no longer open in the application.
BridgeOutcomes == {"ok", "raise"}
DocCallOutcomes == IF docOpen THEN BridgeOutcomes ELSE {"raise"}

\* Line 42: Session().
OpenSession(r) ==
    /\ pc[r] = "session"
    /\ \E o \in BridgeOutcomes :
        IF o = "ok"
        THEN pc' = [pc EXCEPT ![r] = "open"] /\ UNCHANGED <<responses, exc>>
        ELSE Raise(r, ErrSession)
    /\ UNCHANGED <<body, psd_id, i, updated_layers, failed_layers, outcomes, success, doc,
                   ossCalls, docOpen, contents, jpgFiles, bucket>>

\* Lines 44-45: ps.app.open(psd_path); doc = ps.active_document.
OpenDocument(r) ==
    /\ pc[r] = "open"
    /\ \E o \in BridgeOutcomes :
        IF o = "ok"
        THEN /\ docOpen' = TRUE
             /\ doc' = [doc EXCEPT ![r] = "open"]
             /\ pc' = [pc EXCEPT ![r] = "loop"]
             /\ UNCHANGED <<responses, exc>>
        ELSE /\ Raise(r, ErrOpen)
             /\ doc' = [doc EXCEPT ![r] = SessionExit(@)]
             /\ UNCHANGED docOpen
    /\ UNCHANGED <<body, psd_id, i, updated_layers, failed_layers, outcomes, success,
                   ossCalls, contents, jpgFiles, bucket>>

\* Line 49: not isinstance(update, dict) or 'layer_id' not in update or 'text' not in update.
MalformedUpdate(u) ==
    \/ u.type # "object"
    \/ "layer_id" \notin DOMAIN u.val
    \/ "text" \notin DOMAIN u.val

\* IsTextLayer with the kind check left out.
IsTextLayer_Always(name) == TRUE

\* Line 59: layer.kind == ps.LayerKind.TextLayer.
IsTextLayer(name) == LayerKind(name) = "TextLayer"

\* The branches of the loop body (lines 49-71) an update may take: the format
\* check; getByName raising, because the document is no longer open or has no
\* layer of that name; the kind check; the assignment raising; the
\* assignment done.
ItemOutcomes(u) ==
    IF MalformedUpdate(u) THEN {"invalid"}
    ELSE IF ~docOpen THEN {"lookup_error"}
    ELSE IF u.val.layer_id \notin LayerNames THEN {"not_found"}
    ELSE IF IsTextLayer(u.val.layer_id) THEN {"set_error", "ok"}
    ELSE {"not_text"}

\* The record lines 50, 63-66 and 68-71 append to failed_layers.
FailureRecord(u, o) ==
    CASE o = "invalid" -> [error |-> "Invalid update format"]
      [] o = "not_text" -> [layer_id |-> u.val.layer_id, error |-> "Not a text layer"]
      [] o = "not_found" -> [layer_id |-> u.val.layer_id, error |-> ErrNotFound]
      [] o = "lookup_error" -> [layer_id |-> u.val.layer_id, error |-> ErrLookup]
      [] o = "set_error" -> [layer_id |-> u.val.layer_id, error |-> ErrSetText]

\* AppendLayer inserting at the front.
AppendLayer_Front(list, layer_id) == <<layer_id>> \o list

\* Line 61: updated_layers.append(layer_id).
AppendLayer(list, layer_id) == Append(list, layer_id)

\* AppendFailure recording nothing.
AppendFailure_Dropped(list, record) == list

\* Lines 50, 63 and 68: failed_layers.append(record).
AppendFailure(list, record) == Append(list, record)

\* Lines 48-71: one iteration of `for update in text_updates`.
ProcessUpdate(r) ==
    /\ pc[r] = "loop"
    /\ i[r] <= Len(Updates(r))
    /\ LET u == Updates(r)[i[r]] IN
       \E o \in ItemOutcomes(u) :
        /\ outcomes' = [outcomes EXCEPT ![r] = Append(@, o)]
        /\ IF o = "ok"
           THEN /\ contents' = [contents EXCEPT ![u.val.layer_id] = u.val.text]
                /\ updated_layers' = [updated_layers EXCEPT ![r] = AppendLayer(@, u.val.layer_id)]
                /\ UNCHANGED failed_layers
           ELSE /\ failed_layers' = [failed_layers EXCEPT ![r] = AppendFailure(@, FailureRecord(u, o))]
                /\ UNCHANGED <<contents, updated_layers>>
    /\ i' = [i EXCEPT ![r] = @ + 1]
    /\ UNCHANGED <<pc, body, psd_id, success, doc, responses, exc, ossCalls, docOpen,
                   jpgFiles, bucket>>

\* ShouldExport with the test left out.
ShouldExport_Always(updated) == TRUE

\* ShouldExport with the test inverted.
ShouldExport_Inverted(updated) == updated = <<>>

\* Line 73: if updated_layers.
ShouldExport(updated) == updated # <<>>

\* Lines 73-76: after the loop, doc.saveAs(jpg_path, options, asCopy=True)
\* when some layer was updated.
Export(r) ==
    /\ pc[r] = "loop"
    /\ i[r] > Len(Updates(r))
    /\ IF ShouldExport(updated_layers[r])
       THEN \E o \in DocCallOutcomes :
              IF o = "ok"
              THEN /\ jpgFiles' = [jpgFiles EXCEPT ![JpgPath(psd_id[r])] = r]
                   /\ pc' = [pc EXCEPT ![r] = "close"]
                   /\ UNCHANGED <<responses, exc, doc>>
              ELSE /\ Raise(r, ErrSaveAs)
                   /\ doc' = [doc EXCEPT ![r] = SessionExit(@)]
                   /\ UNCHANGED jpgFiles
       ELSE /\ pc' = [pc EXCEPT ![r] = "close"]
            /\ UNCHANGED <<responses, exc, doc, jpgFiles>>
    /\ UNCHANGED <<body, psd_id, i, updated_layers, failed_layers, outcomes, success,
                   ossCalls, docOpen, contents, bucket>>

\* Line 78: doc.close(); the edits in memory are discarded.
CloseDocument(r) ==
    /\ pc[r] = "close"
    /\ \E o \in DocCallOutcomes :
        IF o = "ok"
        THEN /\ docOpen' = FALSE
             /\ contents' = [n \in TextLayers |-> OrigText]
             /\ doc' = [doc EXCEPT ![r] = "closed"]
             /\ pc' = [pc EXCEPT ![r] = "return"]
             /\ UNCHANGED <<responses, exc>>
        ELSE /\ Raise(r, ErrClose)
             /\ doc' = [doc EXCEPT ![r] = SessionExit(@)]
             /\ UNCHANGED <<docOpen, contents>>
    /\ UNCHANGED <<body, psd_id, i, updated_layers, failed_layers, outcomes, success,
                   ossCalls, jpgFiles, bucket>>

\* Succeeded reporting success whatever the list holds.
Succeeded_Always(updated) == TRUE

\* Line 80: bool(updated_layers).
Succeeded(updated) == updated # <<>>

\* Lines 80 and 102: the with block is left and the tuple returned.
Return(r) ==
    /\ pc[r] = "return"
    /\ success' = [success EXCEPT ![r] = Succeeded(updated_layers[r])]
    /\ doc' = [doc EXCEPT ![r] = SessionExit(@)]
    /\ pc' = [pc EXCEPT ![r] = "check"]
    /\ UNCHANGED <<body, psd_id, i, updated_layers, failed_layers, outcomes, responses, exc,
                   ossCalls, docOpen, contents, jpgFiles, bucket>>

\* -------------------------------------------------------- update_psd_text
\* Lines 106-110: if not success.
CheckSuccess(r) ==
    /\ pc[r] = "check"
    /\ IF ~success[r]
       THEN Respond(r, 400, [error |-> "No layers were updated",
                             failed_layers |-> failed_layers[r]])
       ELSE pc' = [pc EXCEPT ![r] = "auth"] /\ UNCHANGED responses
    /\ UNCHANGED <<body, psd_id, i, updated_layers, failed_layers, outcomes, success, doc,
                   exc, ossCalls, docOpen, contents, jpgFiles, bucket>>

OssCall(op, key, data) == [op |-> op, key |-> key, data |-> data]

\* Lines 113-115: oss2.Auth(...), oss2.Bucket(...).
Authenticate(r) ==
    /\ pc[r] = "auth"
    /\ \E o \in {"ok", "Auth raises", "Bucket raises"} :
        CASE o = "ok" ->
                /\ ossCalls' = [ossCalls EXCEPT ![r] =
                        @ \o <<OssCall("Auth", None, 0), OssCall("Bucket", None, 0)>>]
                /\ pc' = [pc EXCEPT ![r] = "upload"]
                /\ UNCHANGED <<responses, exc>>
          [] o = "Auth raises" ->
                /\ ossCalls' = [ossCalls EXCEPT ![r] = Append(@, OssCall("Auth", None, 0))]
                /\ Raise(r, ErrAuth)
          [] o = "Bucket raises" ->
                /\ ossCalls' = [ossCalls EXCEPT ![r] =
                        @ \o <<OssCall("Auth", None, 0), OssCall("Bucket", None, 0)>>]
                /\ Raise(r, ErrBucket)
    /\ UNCHANGED <<body, psd_id, i, updated_layers, failed_layers, outcomes, success, doc,
                   docOpen, contents, jpgFiles, bucket>>

\* Lines 117-118: with open(jpg_path, 'rb') as f: bucket.put_object(oss_path, f).
Upload(r) ==
    /\ pc[r] = "upload"
    /\ LET file == jpgFiles[JpgPath(psd_id[r])]
           call == OssCall("put_object", OssPath(psd_id[r]), file) IN
       IF file = 0
       THEN Raise(r, ErrNoFile) /\ UNCHANGED <<ossCalls, bucket>>
       ELSE \E o \in {"ok", "raise"} :
              /\ ossCalls' = [ossCalls EXCEPT ![r] = Append(@, call)]
              /\ IF o = "ok"
                 THEN /\ bucket' = [bucket EXCEPT ![OssPath(psd_id[r])] = file]
                      /\ pc' = [pc EXCEPT ![r] = "cleanup"]
                      /\ UNCHANGED <<responses, exc>>
                 ELSE Raise(r, ErrPut) /\ UNCHANGED bucket
    /\ UNCHANGED <<body, psd_id, i, updated_layers, failed_layers, outcomes, success, doc,
                   docOpen, contents, jpgFiles>>

OSS_BUCKET_NAME == "bucket"
OSS_ENDPOINT == "endpoint"

\* Lines 125-132: the success payload.
SuccessPayload(r) ==
    [success |-> TRUE,
     message |-> "Text updated and file uploaded successfully",
     updated_layers |-> updated_layers[r],
     failed_layers |-> failed_layers[r],
     oss_path |-> OssPath(psd_id[r]),
     oss_url |-> <<"https://", OSS_BUCKET_NAME, ".", OSS_ENDPOINT, "/", OssPath(psd_id[r])>>]

\* Lines 120-132: os.remove(jpg_path), then the 200 response.
Cleanup(r) ==
    /\ pc[r] = "cleanup"
    /\ IF jpgFiles[JpgPath(psd_id[r])] = 0
       THEN Raise(r, ErrNoFile) /\ UNCHANGED jpgFiles
       ELSE \E o \in {"ok", "raise"} :
              IF o = "ok"
              THEN /\ jpgFiles' = [jpgFiles EXCEPT ![JpgPath(psd_id[r])] = 0]
                   /\ Respond(r, 200, SuccessPayload(r))
                   /\ UNCHANGED exc
              ELSE Raise(r, ErrRemove) /\ UNCHANGED jpgFiles
    /\ UNCHANGED <<body, psd_id, i, updated_layers, failed_layers, outcomes, success, doc,
                   ossCalls, docOpen, contents, bucket>>

\* One step of the handler thread r past the arrival of its request.
Handle(r) ==
    \/ Validate(r)
    \/ OpenSession(r)
    \/ OpenDocument(r)
    \/ ProcessUpdate(r)
    \/ Export(r)
    \/ CloseDocument(r)
    \/ Return(r)
    \/ CheckSuccess(r)
    \/ Authenticate(r)
    \/ Upload(r)
    \/ Cleanup(r)

\* One request, handled in isolation.
Next == \E r \in {1} : Receive(r) \/ Handle(r)

Spec == Init /\ [][Next]_vars

\* Two requests for the same psd_id, handled by two threads of the server.
NextConc == \E r \in Reqs : ReceiveConc(r) \/ Handle(r)

SpecConc == Init /\ [][NextConc]_vars

\* ================================================================= claims
Done(r) == pc[r] = "done"
TheJpg == jpgFiles[JpgPath("1")]

\* The request passed validation (the .psd file exists) and the Processor was called.
Processed(r) == psd_id[r] # None

\* The loop has visited every update of the list.
BatchEnded(r) == doc[r] # "none" /\ pc[r] # "loop"

\* A mapping that has both keys (the negation of line 49's test, written out).
WellFormed(u) == u.type = "object" /\ {"layer_id", "text"} \subseteq DOMAIN u.val

\* A mapping whose layer_id names a text layer of the document.
NamesTextLayer(u) ==
    /\ u.type = "object"
    /\ "layer_id" \in DOMAIN u.val
    /\ u.val.layer_id \in LayerNames
    /\ LayerKind(u.val.layer_id) = "TextLayer"

Elems(seq) == {seq[k] : k \in 1..Len(seq)}
Count(seq, x) == Cardinality({k \in 1..Len(seq) : seq[k] = x})

\* ---- C1
\* C1: a JPEG is on disk (or in the bucket) only if the batch ended with a
\* non-empty updated_layers, and the 200 response is returned only if the
\* Processor returned success = true with at least one update done.
C1_JpegAndSuccessOnlyIfUpdated ==
    \A r \in Reqs :
        /\ (TheJpg = r \/ bucket[OssPath("1")] = r) =>
                (BatchEnded(r) /\ updated_layers[r] # <<>>)
        /\ \A k \in 1..Len(responses[r]) :
                responses[r][k].status = 200 =>
                    /\ success[r]
                    /\ updated_layers[r] # <<>>
                    /\ "ok" \in Elems(outcomes[r])

\* C1 witness: a 200 response after a batch with a failure beside the success.
C1_Witness ==
    \E r \in Reqs :
        /\ Done(r)
        /\ responses[r][1].status = 200
        /\ failed_layers[r] # <<>>

\* ---- C2
\* C2 (as claimed): a body that is no JSON, or that does not hold both psd_id
\* and updates, is answered 400, with the Processor never called and no
\* object-store call made.
C2_Original ==
    \A r \in Reqs :
        (Done(r) /\ (body[r].type # "object"
                     \/ ~({"psd_id", "updates"} \subseteq DOMAIN body[r].val))) =>
            /\ responses[r][1].status = 400
            /\ doc[r] = "none"
            /\ ossCalls[r] = <<>>

\* ---- C3
\* C3 (as claimed): the file exists and every update of the list failed:
\* the response is 400 "No layers were updated" with failed_layers, and the
\* object store received no call.
C3_Original ==
    \A r \in Reqs :
        (Done(r) /\ Processed(r) /\ BatchEnded(r) /\ updated_layers[r] = <<>>) =>
            /\ responses[r][1] = [status |-> 400,
                                  json |-> [error |-> "No layers were updated",
                                            failed_layers |-> failed_layers[r]]]
            /\ ossCalls[r] = <<>>

\* C3 (amended): when the file exists and no update has succeeded, the
\* object store receives no call; the response is 400 "No layers were
\* updated" with failed_layers if the Processor returns, and 500 with the
\* exception's message if opening the session, opening the document or
\* closing the document raised.
C3_Amended ==
    \A r \in Reqs :
        (Processed(r) /\ updated_layers[r] = <<>>) =>
            /\ ossCalls[r] = <<>>
            /\ Done(r) =>
                IF exc[r] = None
                THEN responses[r] = <<[status |-> 400,
                                       json |-> [error |-> "No layers were updated",
                                                 failed_layers |-> failed_layers[r]]]>>
                ELSE /\ exc[r] \in {ErrSession, ErrOpen, ErrClose}
                     /\ responses[r] = <<[status |-> 500, json |-> [error |-> exc[r]]]>>

\* C3 witness: a list of two updates that both failed, answered 400.
C3_Witness ==
    \E r \in Reqs :
        /\ Done(r)
        /\ Len(failed_layers[r]) = 2
        /\ Len(Updates(r)) = 2
        /\ responses[r][1].status = 400
        /\ responses[r][1].json.error = "No layers were updated"

\* ---- C4
\* C4: a handler that has ended returned exactly one response, the success
\* payload with 200 or an object with an error string with 400, 404 or 500;
\* an exception raised anywhere in the handler ends it with 500 and the
\* exception's message, and before it ends no response exists.
C4_ExactlyOneResponse ==
    \A r \in Reqs :
        /\ Done(r) =>
            /\ Len(responses[r]) = 1
            /\ \/ /\ responses[r][1].status = 200
                  /\ responses[r][1].json = SuccessPayload(r)
                  /\ responses[r][1].json.success = TRUE
               \/ /\ responses[r][1].status \in {400, 404, 500}
                  /\ "error" \in DOMAIN responses[r][1].json
        /\ ~Done(r) => responses[r] = <<>>
        /\ exc[r] # None =>
            /\ Done(r)
            /\ responses[r] = <<[status |-> 500, json |-> [error |-> exc[r]]]>>

\* C4 witness: os.remove raised after the upload and the handler answered 500.
C4_Witness ==
    \E r \in Reqs :
        /\ Done(r)
        /\ exc[r] = ErrRemove
        /\ responses[r][1].status = 500

\* ---- C5
\* The lists the visited updates should have produced, from the branch each took.
RECURSIVE ExpectedSucceeded(_, _, _)
ExpectedSucceeded(us, outs, k) ==
    IF k = 0 THEN <<>>
    ELSE IF outs[k] = "ok"
         THEN Append(ExpectedSucceeded(us, outs, k - 1), us[k].val.layer_id)
         ELSE ExpectedSucceeded(us, outs, k - 1)

ExpectedRecord(u, o) ==
    IF o = "invalid" THEN [error |-> "Invalid update format"]
    ELSE [layer_id |-> u.val.layer_id,
          error |-> CASE o = "not_text" -> "Not a text layer"
                      [] o = "not_found" -> ErrNotFound
                      [] o = "set_error" -> ErrSetText
                      [] OTHER -> ErrLookup]

RECURSIVE ExpectedFailed(_, _, _)
ExpectedFailed(us, outs, k) ==
    IF k = 0 THEN <<>>
    ELSE IF outs[k] = "ok"
         THEN ExpectedFailed(us, outs, k - 1)
         ELSE Append(ExpectedFailed(us, outs, k - 1), ExpectedRecord(us[k], outs[k]))

\* The scenario of test_psd_processing.
ScenarioUpdates ==
    <<JObject([layer_id |-> "title", text |-> "Test text 1"]),
      JObject([layer_id |-> "test_layer_2", text |-> "Test text 1"]),
      JObject([layer_id |-> "nonexistent_layer", text |-> "Test text 1"])>>

C7_Original ==
    \A r \in Reqs :
        (pc[r] \in {"return", "check", "auth", "upload", "cleanup", "done"}
            /\ doc[r] # "none" /\ exc[r] # ErrClose) =>
                doc[r] = "closed"

\* ---- C8
\* C8 (as claimed): once the Processor has created the JPEG and returned, no
\* ended request leaves the JPEG on disk.
C8_Original ==
    \A r \in Reqs : (Done(r) /\ success[r]) => TheJpg = 0

\* ---- C9
\* C9: once the document is open every update is visited in order and yields
\* exactly one outcome: len(succeeded) + len(failed) is the number of updates
\* visited, and the function is past the loop only with all of them visited.
C9_BatchNeverAborts ==
    \A r \in Reqs :
        doc[r] # "none" =>
            /\ i[r] \in 1..(Len(Updates(r)) + 1)
            /\ Len(updated_layers[r]) + Len(failed_layers[r]) = i[r] - 1
            /\ pc[r] # "loop" =>
                Len(updated_layers[r]) + Len(failed_layers[r]) = Len(Updates(r))

\* C9 witness: a batch of a malformed entry, a missing layer and a failing
\* assignment has reached the close step.
C9_Witness ==
    \E r \in Reqs :
        /\ pc[r] = "close"
        /\ outcomes[r] = <<"invalid", "not_found", "set_error">>
        /\ Len(failed_layers[r]) = 3

\* ---- C10
PutData(r) == {ossCalls[r][k].data : k \in {j \in 1..Len(ossCalls[r]) : ossCalls[r][j].op = "put_object"}}

\* C10: with two requests for the same psd_id, a request whose own updates
\* succeeded finds the JPEG missing only after the other request removed it,
\* and what a request uploads is an export of one of the two requests, the
\* other's only if the other exported too.
C10_RaceOnOutputPath ==
    \A r \in Reqs :
        /\ exc[r] = ErrNoFile =>
            /\ updated_layers[r] # <<>>
            /\ \E q \in Reqs \ {r} :
                /\ Done(q)
                /\ responses[q][1].status = 200
        /\ \A d \in PutData(r) :
            /\ d \in Reqs
            /\ updated_layers[d] # <<>>
            /\ BatchEnded(d)

\* C10 witness: one request uploaded the JPEG the other request's export
\* wrote and removed it, and the other, whose updates succeeded, ended in 500
\* on the missing file.
C10_Witness ==
    \E r \in Reqs : \E q \in Reqs \ {r} :
        /\ q \in PutData(r)
        /\ Done(r)
        /\ responses[r][1].status = 200
        /\ Done(q)
        /\ success[q]
        /\ exc[q] = ErrNoFile
        /\ responses[q][1].status = 500
====
